---- MODULE Spec2Model ----
(***************************************************************************)
(* Verification model of the Erroneous-LineString-Fixer repository.        *)
(*                                                                         *)
(*   src/difference_intersecting_lines.py                                  *)
(*       reverse_geocode, batch_reverse_geocode, extract_street_name,      *)
(*       filter_non_intersecting_lines                                     *)
(*   src/linestrings_plotter.py                                            *)
(*       correct_erroneous_line, correct_lines_in_dataframe                *)
(*                                                                         *)
(* Representation.                                                         *)
(*   - A Python value is a record [type, val]: None is PyNone, a str is    *)
(*     PyStr(<<chars>>) with val the sequence of its characters.           *)
(*   - A line part is a segment <<a, b>> with a < b on a one-dimensional   *)
(*     integer axis; its point set is a..b, so two parts intersect iff     *)
(*     they share a point, a shared endpoint included.  A geometry is a    *)
(*     sequence of parts (a MultiLineString when it has several).          *)
(*   - A CRS places the origin of the axis: reprojection is the            *)
(*     translation between the two origins.                                *)
(***************************************************************************)
EXTENDS Integers, Sequences, FiniteSets, TLC

VARIABLES
    \* ---- filter_non_intersecting_lines / batch_reverse_geocode ----
    first_data,     \* layers of the first file: sequence of [crs, geoms]
    second_data,    \* the second file: [crs, recs], recs a sequence of [geometry, name]
    pc,             \* position of the running function
    gdf_1,          \* merged and exploded first dataset: [crs, rows]
    gdf_2,          \* reprojected and exploded second dataset: [crs, rows]
    gdf_diff,       \* the difference: [crs, rows], rows keep gdf_2's index labels
    batch_size,     \* batch_reverse_geocode's parameter
    addresses,      \* the list built by the loop of batch_reverse_geocode
    requests,       \* the lookups sent: [row, response] per call of reverse_geocode
    pauses,         \* for each time.sleep: the number of rows processed so far
    \* ---- correct_lines_in_dataframe / correct_erroneous_line ----
    g,              \* the road graph
    data,           \* the rows to correct
    geometry,       \* the results of data.apply, in row order
    calls,          \* per processed row: the library calls it made, and its way out
    successful_routes,
    \* ---- extract_street_name ----
    address,        \* the argument
    street          \* the returned value

vars == <<first_data, second_data, pc, gdf_1, gdf_2, gdf_diff, batch_size,
          addresses, requests, pauses, g, data, geometry, calls, successful_routes,
          address, street>>

diffVars  == <<first_data, second_data, gdf_1, gdf_2, gdf_diff, batch_size,
               addresses, requests, pauses>>
matchVars == <<g, data, geometry, calls, successful_routes>>
nameVars  == <<address, street>>

(***************************************************************************)
(* Bounds of the model.                                                    *)
(***************************************************************************)
MaxCoord  == 3      \* segment end points range over 0..MaxCoord
MaxGeoms  == 2      \* records in the second file of the pipeline
MaxRecs   == 1      \* records in the second file of the difference step alone
MaxBatch  == 2      \* explicit batch sizes 1..MaxBatch
MaxLen    == 4      \* length of the enumerated address strings
MaxNodes  == 3      \* nodes of the road graph
MaxData   == 2      \* rows handed to correct_lines_in_dataframe

DefaultBatch == 50  \* batch_size=50

(***************************************************************************)
(* Python values.                                                          *)
(***************************************************************************)
PyNone   == [type |-> "NoneType", val |-> <<>>]
PyStr(s) == [type |-> "str", val |-> s]
PyNaN    == [type |-> "float", val |-> <<"nan">>]

isna(v) == v.type = "NoneType" \/ v = PyNaN

isinstance_str(v) == v.type = "str"

(***************************************************************************)
(* Character classes of the re module and of str.strip.                    *)
(***************************************************************************)
Digits ==
    {"0", "1", "2", "3", "4", "5", "6", "7", "8", "9"}
Letters ==
    {"A", "B", "C", "D", "E", "F", "G", "H", "I", "J", "K", "L", "M", "N",
     "O", "P", "Q", "R", "S", "T", "U", "V", "W", "X", "Y", "Z", "a", "b",
     "c", "d", "e", "f", "g", "h", "i", "j", "k", "l", "m", "n", "o", "p",
     "q", "r", "s", "t", "u", "v", "w", "x", "y", "z"}
Whitespace == {" "}

UnitChars  == Letters \cup {"-"}                \* [A-Za-z\-]

IsSpace(c) == c \in Whitespace                  \* \s, and what str.strip removes

Max(S) == CHOOSE x \in S : \A y \in S : y <= x

(***************************************************************************)
(* str.strip(): the string without its leading and trailing whitespace.    *)
(***************************************************************************)
RECURSIVE lstrip(_)
lstrip(s) == IF s # <<>> /\ IsSpace(Head(s)) THEN lstrip(Tail(s)) ELSE s

RECURSIVE rstrip(_)
rstrip(s) ==
    IF s # <<>> /\ IsSpace(s[Len(s)]) THEN rstrip(SubSeq(s, 1, Len(s) - 1)) ELSE s

strip(s) == rstrip(lstrip(s))

(***************************************************************************)
(* address.split(",")[0]: the characters before the first comma.           *)
(***************************************************************************)
RECURSIVE split_first(_)
split_first(s) ==
    IF s = <<>> \/ Head(s) = "," THEN <<>> ELSE <<Head(s)>> \o split_first(Tail(s))

(***************************************************************************)
(* The quantifiers of the pattern ^\s*\d+[A-Za-z\-]*\s+ as the positions   *)
(* where a run starting after position i may end; the engine tries the     *)
(* longest run first and backtracks to shorter ones.                       *)
(***************************************************************************)
StarEnds(s, i, class) == {j \in i..Len(s) : \A k \in (i + 1)..j : s[k] \in class}
PlusEnds(s, i, class) == StarEnds(s, i, class) \ {i}

TailMatches3(s, i3) == PlusEnds(s, i3, Whitespace) # {}
TailMatches2(s, i2) == \E i3 \in StarEnds(s, i2, UnitChars) : TailMatches3(s, i3)
TailMatches1(s, i1) == \E i2 \in PlusEnds(s, i1, Digits) : TailMatches2(s, i2)

\* The pattern without its letter class, ^\s*\d+\s+: a unit suffix such as the
\* "b" of "13b" stops the match.
re_match_end_no_suffix(s) ==
    LET C1 == {i1 \in StarEnds(s, 0, Whitespace) :
                  \E i2 \in PlusEnds(s, i1, Digits) : TailMatches3(s, i2)}
    IN  IF C1 = {} THEN 0
        ELSE LET i1 == Max(C1)
                 i2 == Max({j \in PlusEnds(s, i1, Digits) : TailMatches3(s, j)})
             IN  Max(PlusEnds(s, i2, Whitespace))

\* End of the match of the pattern at the start of s; 0 when it does not match
\* (a match holds at least one digit and one whitespace).
re_match_end(s) ==
    LET C1 == {i1 \in StarEnds(s, 0, Whitespace) : TailMatches1(s, i1)}
    IN  IF C1 = {} THEN 0
        ELSE LET i1 == Max(C1)
                 i2 == Max({j \in PlusEnds(s, i1, Digits) : TailMatches2(s, j)})
                 i3 == Max({j \in StarEnds(s, i2, UnitChars) : TailMatches3(s, j)})
             IN  Max(PlusEnds(s, i3, Whitespace))

\* re.sub(r"^\s*\d+[A-Za-z\-]*\s+", "", first_part)
re_sub(s) ==
    IF re_match_end(s) = 0 THEN s ELSE SubSeq(s, re_match_end(s) + 1, Len(s))

(***************************************************************************)
(* extract_street_name(address)                                            *)
(***************************************************************************)
extract_street_name(a) ==
    IF ~isinstance_str(a) \/ strip(a.val) = <<>>
    THEN PyStr(<<>>)
    ELSE LET first_part == strip(split_first(a.val))
             cleaned    == re_sub(first_part)
         IN  IF cleaned # <<>> THEN PyStr(cleaned) ELSE PyStr(first_part)

(***************************************************************************)
(* Arguments of extract_street_name: the docstring's examples, every       *)
(* string of at most MaxLen characters over a five-letter alphabet, and    *)
(* values that are not strings.                                            *)
(***************************************************************************)
Example1 ==
    <<"9", " ", "A", "b", "u", "d", "u", " ", "O", "l", "a", "d", "e", "j",
      "o", " ", "S", "t", ",", " ", "P", "a", "p", "a", " ", "A", "s", "h",
      "a", "f", "a", ",", " ", "L", "a", "g", "o", "s", " ", "1", "0", "2",
      "2", "1", "2", ",", " ", "L", "a", "g", "o", "s", ",", " ", "N", "i",
      "g", "e", "r", "i", "a">>
Example2 ==
    <<"1", "3", "b", " ", "P", "e", "a", "c", "e", " ", "C", "l", ",", " ",
      "I", "f", "a", "k", "o", " ", "A", "g", "e", "g", "e", ",", " ", "L",
      "a", "g", "o", "s", " ", "1", "0", "1", "2", "3", "2", ",", " ", "L",
      "a", "g", "o", "s", ",", " ", "N", "i", "g", "e", "r", "i", "a">>
Result1 == <<"A", "b", "u", "d", "u", " ", "O", "l", "a", "d", "e", "j", "o", " ", "S", "t">>
Result2 == <<"P", "e", "a", "c", "e", " ", "C", "l">>

Alphabet == {"1", "a", "-", " ", ","}

Strings(n) == UNION {[1..k -> Alphabet] : k \in 0..n}

PyInt == [type |-> "int", val |-> <<"1">>]

Labels ==
    {PyStr(s) : s \in Strings(MaxLen) \cup {Example1, Example2}}
        \cup {PyNone, PyNaN, PyInt}

(***************************************************************************)
(* Geometry.  A part is a segment <<a, b>>, a < b; a geometry is a         *)
(* sequence of parts.                                                      *)
(***************************************************************************)
Segments == {s \in (0..MaxCoord) \X (0..MaxCoord) : s[1] < s[2]}

Points(seg) == seg[1]..seg[2]

PointsOf(geom) == UNION {Points(geom[k]) : k \in DOMAIN geom}

length(geom) == IF Len(geom) = 0 THEN 0 ELSE geom[1][2] - geom[1][1]

\* Coordinate reference systems: where each one puts the origin of the axis.
CRSs == {"EPSG:4326", "EPSG:32631"}

Origin(crs) == IF crs = "EPSG:4326" THEN 0 ELSE 1

reproject(geom, src, dst) ==
    [k \in DOMAIN geom |->
        <<geom[k][1] + Origin(src) - Origin(dst), geom[k][2] + Origin(src) - Origin(dst)>>]

\* GeoDataFrame.to_crs: every geometry is transformed and the frame retagged;
\* rows, labels and attributes are kept.
to_crs(gdf, dst) ==
    [crs  |-> dst,
     rows |-> [i \in DOMAIN gdf.rows |->
                 [gdf.rows[i] EXCEPT !.geometry = reproject(@, gdf.crs, dst)]]]

\* pd.concat(gdf, ignore_index=True): the rows of the layers in layer order.
RECURSIVE concat(_)
concat(layers) ==
    IF layers = <<>> THEN <<>> ELSE Head(layers).rows \o concat(Tail(layers))

\* The parts of one record, each with the record's attributes.
parts_of(rec) == [k \in DOMAIN rec.geometry |-> [rec EXCEPT !.geometry = <<rec.geometry[k]>>]]

RECURSIVE explode_rows(_)
explode_rows(rows) ==
    IF rows = <<>> THEN <<>> ELSE parts_of(Head(rows)) \o explode_rows(Tail(rows))

\* GeoDataFrame.explode(index_parts=False, ignore_index=True): one row per part,
\* labelled 0, 1, 2, ...
explode(gdf) ==
    LET flat == explode_rows(gdf.rows)
    IN  [crs |-> gdf.crs, rows |-> [i \in DOMAIN flat |-> [flat[i] EXCEPT !.label = i - 1]]]

\* gdf_1.unary_union: the point set of all the parts together.
unary_union(gdf) == UNION {PointsOf(gdf.rows[i].geometry) : i \in DOMAIN gdf.rows}

\* A predicate that needs more than a single common point (a touch is missed).
intersects_interior(geom, other) == Cardinality(PointsOf(geom) \cap other) > 1

\* shapely intersects: the two point sets share a point.
intersects(geom, other) == PointsOf(geom) \cap other # {}

\* gdf[mask]: the rows whose mask is true, in order, with their labels.
RECURSIVE boolean_index(_, _)
boolean_index(rows, mask) ==
    IF rows = <<>> THEN <<>>
    ELSE (IF Head(mask) THEN <<Head(rows)>> ELSE <<>>)
             \o boolean_index(Tail(rows), Tail(mask))

\* gdf_2[~gdf_2.intersects(gdf_1.unary_union)]
non_intersecting(second, first) ==
    [crs  |-> second.crs,
     rows |-> boolean_index(second.rows,
                  [i \in DOMAIN second.rows |->
                      ~intersects(second.rows[i].geometry, unary_union(first))])]

\* gdf_diff["distance_m"] = gdf_diff.geometry.length
with_distance(gdf) ==
    [crs  |-> gdf.crs,
     rows |-> [i \in DOMAIN gdf.rows |->
                 [label      |-> gdf.rows[i].label,
                  geometry   |-> gdf.rows[i].geometry,
                  name       |-> gdf.rows[i].name,
                  distance_m |-> length(gdf.rows[i].geometry)]]]

\* gpd.read_file of one layer / of the second file: a frame with a default index.
read_file(src) ==
    [crs  |-> src.crs,
     rows |-> [i \in DOMAIN src.recs |->
                 [label |-> i - 1, geometry |-> src.recs[i].geometry,
                  name |-> src.recs[i].name]]]

\* gpd.GeoDataFrame(pd.concat(gdf, ignore_index=True), crs=gdf[0].crs)
merge_layers(layers) ==
    LET frames == [i \in DOMAIN layers |-> read_file(layers[i])]
        rows   == concat(frames)
    IN  [crs  |-> frames[1].crs,
         rows |-> [i \in DOMAIN rows |-> [rows[i] EXCEPT !.label = i - 1]]]

NoFrame == [crs |-> "", rows |-> <<>>]

(***************************************************************************)
(* reverse_geocode(lat, lon, api_key).  The answer of the service is       *)
(* [raises, status, results]: raises stands for any exception of           *)
(* requests.get, response.json or the subscripts.  The function returns    *)
(* the first formatted address, or None.                                   *)
(***************************************************************************)
Address1 == <<"9", " ", "A", "b", " ", "S", "t", ",", " ", "P">>
Address2 == <<"1", "3", "b", " ", "C", "l", ",", " ", "I">>

Responses ==
    {[raises |-> TRUE, status |-> "", results |-> <<>>],
     [raises |-> FALSE, status |-> "ZERO_RESULTS", results |-> <<>>],
     [raises |-> FALSE, status |-> "OK", results |-> <<>>],
     [raises |-> FALSE, status |-> "OK", results |-> <<Address1>>],
     [raises |-> FALSE, status |-> "OK", results |-> <<Address2, Address1>>]}

PyRaise == [type |-> "raise", val |-> <<>>]       \* an exception leaving a call

\* reverse_geocode without its try/except: the exception leaves the function.
reverse_geocode_uncaught(response) ==
    IF response.raises THEN PyRaise
    ELSE IF response.status = "OK" /\ Len(response.results) > 0
         THEN PyStr(response.results[1])
         ELSE PyNone

reverse_geocode(response) ==
    IF response.raises THEN PyNone                                 \* except Exception
    ELSE IF response.status = "OK" /\ Len(response.results) > 0
         THEN PyStr(response.results[1])
         ELSE PyNone

(***************************************************************************)
(* filter_non_intersecting_lines, lines 100-128: load, merge, reproject,   *)
(* explode, keep the parts of the second data that do not intersect the    *)
(* union of the first, reproject to EPSG:32631 and measure.                *)
(***************************************************************************)
difference(first, second) ==
    with_distance(to_crs(non_intersecting(second, first), "EPSG:32631"))

DifferenceStep ==
    /\ pc = "start"
    /\ LET merged == merge_layers(first_data)
           second == to_crs(read_file(second_data), merged.crs)
       IN  /\ gdf_1' = explode(merged)
           /\ gdf_2' = explode(second)
           /\ gdf_diff' = difference(explode(merged), explode(second))
    /\ pc' = "difference"
    /\ UNCHANGED <<first_data, second_data, batch_size, addresses, requests, pauses>>
    /\ UNCHANGED <<matchVars, nameVars>>

(***************************************************************************)
(* batch_reverse_geocode(gdf, api_key, batch_size, delay), lines 38-45:    *)
(* entry.  filter_non_intersecting_lines passes gdf_diff and the default   *)
(* batch size; other callers choose one.                                   *)
(***************************************************************************)
BatchSizes == (1..MaxBatch) \cup {DefaultBatch}

BatchEnter ==
    /\ pc = "difference"
    /\ \E bs \in BatchSizes : batch_size' = bs
    /\ gdf_diff' = IF gdf_diff.crs # "EPSG:4326" THEN to_crs(gdf_diff, "EPSG:4326")
                   ELSE gdf_diff
    /\ addresses' = <<>>
    /\ pc' = "iterrows"
    /\ UNCHANGED <<first_data, second_data, gdf_1, gdf_2, requests, pauses>>
    /\ UNCHANGED <<matchVars, nameVars>>

\* if (i + 1) % batch_size == 0, with i the index label of the row
pause_due(i, bs) == (i + 1) % bs = 0

\* One iteration of "for i, row in gdf.iterrows()", lines 47-55.
BatchRow ==
    /\ pc = "iterrows"
    /\ Len(addresses) < Len(gdf_diff.rows)
    /\ LET row == gdf_diff.rows[Len(addresses) + 1]
           i   == row.label
       IN  \E response \in Responses :
             LET adr == reverse_geocode(response)
             IN  /\ requests' = Append(requests, [row |-> i, response |-> response])
                 /\ IF adr = PyRaise
                    THEN /\ pc' = "raised"
                         /\ UNCHANGED <<addresses, pauses>>
                    ELSE /\ addresses' = Append(addresses, adr)
                         /\ pauses' = IF pause_due(i, batch_size)
                                      THEN Append(pauses, Len(addresses) + 1)
                                      ELSE pauses
                         /\ pc' = pc
    /\ UNCHANGED <<first_data, second_data, gdf_1, gdf_2, gdf_diff, batch_size>>
    /\ UNCHANGED <<matchVars, nameVars>>

\* gdf["address"] = addresses; return gdf (lines 57-58)
set_address(gdf, values) ==
    [crs  |-> gdf.crs,
     rows |-> [k \in DOMAIN gdf.rows |->
                 [label      |-> gdf.rows[k].label,
                  geometry   |-> gdf.rows[k].geometry,
                  name       |-> gdf.rows[k].name,
                  distance_m |-> gdf.rows[k].distance_m,
                  address    |-> values[k]]]]

BatchReturn ==
    /\ pc = "iterrows"
    /\ Len(addresses) = Len(gdf_diff.rows)
    /\ gdf_diff' = set_address(gdf_diff, addresses)
    /\ pc' = "enriched"
    /\ UNCHANGED <<first_data, second_data, gdf_1, gdf_2, batch_size, addresses,
                   requests, pauses>>
    /\ UNCHANGED <<matchVars, nameVars>>

(***************************************************************************)
(* Lines 134-139: fill the missing names with the street names, then drop  *)
(* the scratch columns.                                                    *)
(***************************************************************************)
\* gdf_diff["address"].apply(extract_street_name): a Series on the same index.
street_names(gdf) ==
    [k \in DOMAIN gdf.rows |->
        [label |-> gdf.rows[k].label, value |-> extract_street_name(gdf.rows[k].address)]]

\* Series.fillna(other): a null value is replaced by other's value at the same
\* index label.
fillna(value, label, other) ==
    IF isna(value)
    THEN other[CHOOSE k \in DOMAIN other : other[k].label = label].value
    ELSE value

\* gdf_diff["name"] = gdf_diff["name"].fillna(...), then
\* gdf_diff.drop(columns=["centroid", "address"], errors="ignore")
fill_names(gdf) ==
    [crs  |-> gdf.crs,
     rows |-> [k \in DOMAIN gdf.rows |->
                 [label      |-> gdf.rows[k].label,
                  geometry   |-> gdf.rows[k].geometry,
                  name       |-> fillna(gdf.rows[k].name, gdf.rows[k].label,
                                        street_names(gdf)),
                  distance_m |-> gdf.rows[k].distance_m]]]

FillNames ==
    /\ pc = "enriched"
    /\ gdf_diff' = fill_names(gdf_diff)
    /\ pc' = "done"
    /\ UNCHANGED <<first_data, second_data, gdf_1, gdf_2, batch_size, addresses,
                   requests, pauses>>
    /\ UNCHANGED <<matchVars, nameVars>>

(***************************************************************************)
(* Inputs of the pipeline.                                                 *)
(***************************************************************************)
Names == {PyNone, PyStr(<<>>), PyStr(<<"M", "a", "i", "n">>)}

Near == <<0, 1>>
Far  == <<MaxCoord - 1, MaxCoord>>

SeqsUpTo(S, n) == UNION {[1..k -> S] : k \in 0..n}

\* The first file: one layer holding the part Near.  The second file: records
\* that lie on it, away from it, or have one part of each kind.
PipeFirst  == {<<[crs |-> "EPSG:4326", recs |-> <<[geometry |-> <<Near>>, name |-> PyNone]>>]>>}
PipeSecond ==
    {[crs |-> "EPSG:4326", recs |-> r] :
        r \in SeqsUpTo([geometry : {<<Near>>, <<Far>>, <<Near, Far>>}, name : Names],
                       MaxGeoms)}

IdleDiff ==
    /\ first_data = <<>> /\ second_data = [crs |-> "", recs |-> <<>>]
    /\ gdf_1 = NoFrame /\ gdf_2 = NoFrame /\ gdf_diff = NoFrame
    /\ batch_size = 0 /\ addresses = <<>> /\ requests = <<>> /\ pauses = <<>>

IdleMatch ==
    /\ g = [edges |-> {}, shortcut |-> 0] /\ data = <<>> /\ geometry = <<>> /\ calls = <<>>
    /\ successful_routes = 0

IdleName == address = PyNone /\ street = PyNone

Init ==
    /\ first_data \in PipeFirst
    /\ second_data \in PipeSecond
    /\ pc = "start"
    /\ gdf_1 = NoFrame /\ gdf_2 = NoFrame /\ gdf_diff = NoFrame
    /\ batch_size = 0 /\ addresses = <<>> /\ requests = <<>> /\ pauses = <<>>
    /\ IdleMatch /\ IdleName

Next == DifferenceStep \/ BatchEnter \/ BatchRow \/ BatchReturn \/ FillNames

Spec == Init /\ [][Next]_vars

(***************************************************************************)
(* Properties of the enrichment pass.                                      *)
(***************************************************************************)
\* The positive multiples of bs up to n, ascending.
MultiplesUpTo(n, bs) == [j \in 1..(n \div bs) |-> j * bs]

InBatch == pc \in {"iterrows", "enriched", "done"}

\* C1: the pauses taken so far are exactly those after the k-th processed row
\* for every positive multiple k of batch_size, whatever labels the rows carry.
C1_PauseAfterEveryBatch ==
    InBatch => pauses = MultiplesUpTo(Len(addresses), batch_size)

\* The lookup of a response failed (an exception) or found nothing.
NoLabel(response) ==
    response.raises \/ response.status # "OK" \/ response.results = <<>>

\* C2: no lookup aborts the batch; the k-th lookup is the one of the k-th row
\* and gives the k-th label, absent when the lookup failed or found nothing;
\* after the batch every row carries its own label.
C2_FailedLookupDegrades ==
    /\ pc # "raised"
    /\ InBatch =>
         /\ Len(addresses) = Len(requests)
         /\ Len(requests) <= Len(gdf_diff.rows)
         /\ \A k \in DOMAIN requests :
              /\ requests[k].row = gdf_diff.rows[k].label
              /\ addresses[k] = IF NoLabel(requests[k].response) THEN PyNone
                                ELSE PyStr(requests[k].response.results[1])
    /\ pc \in {"enriched", "done"} => Len(addresses) = Len(gdf_diff.rows)
    /\ pc = "enriched" =>
         \A k \in DOMAIN gdf_diff.rows : gdf_diff.rows[k].address = addresses[k]

\* A batch of two rows ended although the first lookup raised and the second
\* found an address.
C2_Witness ==
    /\ pc = "enriched"
    /\ Len(gdf_diff.rows) = 2
    /\ requests[1].response.raises
    /\ gdf_diff.rows[1].address = PyNone
    /\ gdf_diff.rows[2].address = PyStr(Address1)

\* The name the row labelled i had in the source data.
SourceName(i) == gdf_2.rows[i + 1].name

NonEmptyName(v) == isinstance_str(v) /\ v.val # <<>>

\* C10: after enrichment a row with a non-empty source name keeps it, and a
\* row whose source name is absent or the empty string carries the street
\* name derived from its own label.
C10_TokenFillsMissingNames ==
    pc = "done" =>
        \A k \in DOMAIN gdf_diff.rows :
            gdf_diff.rows[k].name =
                IF NonEmptyName(SourceName(gdf_diff.rows[k].label))
                THEN SourceName(gdf_diff.rows[k].label)
                ELSE extract_street_name(addresses[k])

(***************************************************************************)
(* The difference step on its own, over richer geometry: one or two layers *)
(* in either CRS holding at most one record each, records of one part or   *)
(* of two disconnected parts.                                              *)
(***************************************************************************)
Geoms ==
    {<<s>> : s \in Segments}
        \cup {<<su[1], su[2]>> : su \in {x \in Segments \X Segments : x[1][2] < x[2][1]}}

Unnamed(G) == [geometry : G, name : {PyNone}]

LayerCounts == {1, 2}

DiffFirst ==
    UNION {[1..n -> [crs : CRSs, recs : SeqsUpTo(Unnamed(Geoms), 1)]] : n \in LayerCounts}

DiffSecond == [crs : {"EPSG:4326"}, recs : SeqsUpTo(Unnamed(Geoms), MaxRecs)]

InitDiff ==
    /\ first_data \in DiffFirst
    /\ second_data \in DiffSecond
    /\ pc = "start"
    /\ gdf_1 = NoFrame /\ gdf_2 = NoFrame /\ gdf_diff = NoFrame
    /\ batch_size = 0 /\ addresses = <<>> /\ requests = <<>> /\ pauses = <<>>
    /\ IdleMatch /\ IdleName

NextDiff == DifferenceStep

SpecDiff == InitDiff /\ [][NextDiff]_vars

\* Number of parts of a sequence of records.
RECURSIVE PartCount(_)
PartCount(recs) ==
    IF recs = <<>> THEN 0 ELSE Len(Head(recs).geometry) + PartCount(Tail(recs))

\* The points covered by the decomposed first dataset.
ReferenceUnion == UNION {Points(gdf_1.rows[i].geometry[1]) : i \in DOMAIN gdf_1.rows}

\* The decomposed parts of the second dataset that share no point with it.
Disjoint == {i \in DOMAIN gdf_2.rows :
                \A p \in Points(gdf_2.rows[i].geometry[1]) : p \notin ReferenceUnion}

EndPoints(rows) == UNION {{rows[i].geometry[1][1], rows[i].geometry[1][2]} : i \in DOMAIN rows}

\* C7: the difference holds exactly the decomposed parts of B that share no
\* point with the union of the decomposed parts of A (a common end point
\* excludes a part), each once, in B's order: only parts of B, at most as many
\* as B has, all of them when B is disjoint from A, none when every part
\* touches A.
C7_DifferenceKeepsDisjointParts ==
    pc = "difference" =>
        /\ Len(gdf_2.rows) = PartCount(second_data.recs)
        /\ \A i \in DOMAIN gdf_2.rows : Len(gdf_2.rows[i].geometry) = 1
        /\ \A i \in DOMAIN gdf_2.rows :
              (i \in Disjoint) <=>
                  (\E k \in DOMAIN gdf_diff.rows : gdf_diff.rows[k].label = i - 1)
        /\ \A k \in DOMAIN gdf_diff.rows :
              /\ gdf_diff.rows[k].label + 1 \in DOMAIN gdf_2.rows
              /\ reproject(gdf_diff.rows[k].geometry, gdf_diff.crs, gdf_2.crs)
                    = gdf_2.rows[gdf_diff.rows[k].label + 1].geometry
              /\ EndPoints(<<gdf_2.rows[gdf_diff.rows[k].label + 1]>>)
                    \cap EndPoints(gdf_1.rows) = {}
        /\ \A k \in 1..(Len(gdf_diff.rows) - 1) :
              gdf_diff.rows[k].label < gdf_diff.rows[k + 1].label
        /\ Len(gdf_diff.rows) <= Len(gdf_2.rows)
        /\ Disjoint = DOMAIN gdf_2.rows => Len(gdf_diff.rows) = Len(gdf_2.rows)
        /\ Disjoint = {} => gdf_diff.rows = <<>>

\* A record of B of two parts: one only touches A at an end point and is
\* dropped, the other is kept.
C7_Witness ==
    /\ pc = "difference"
    /\ Len(gdf_2.rows) = 2
    /\ Len(gdf_diff.rows) = 1
    /\ \E i \in DOMAIN gdf_2.rows :
          Cardinality(Points(gdf_2.rows[i].geometry[1]) \cap ReferenceUnion) = 1

\* All layers of the first file carry one CRS.
OneCRS == \A i \in DOMAIN first_data : first_data[i].crs = first_data[1].crs

\* C8: a difference is produced only from a first and a second dataset that
\* both hold geometries after decomposition, and from layers that share one
\* CRS (otherwise the step fails with EmptyInput or CRSMismatch).
C8_EmptyOrMixedInputIsRejected ==
    pc = "difference" =>
        /\ gdf_1.rows # <<>>
        /\ gdf_2.rows # <<>>
        /\ OneCRS

(***************************************************************************)
(* Map matching.  The road graph has the nodes 1..MaxNodes, node n at      *)
(* x = Spacing * (n - 1), y = 0, and directed edges with a length.  A row  *)
(* holds start_north, start_east, end_north, end_east and its index label  *)
(* name; a coordinate is a number, NaN, or a value that is no number.      *)
(***************************************************************************)
Nodes == 1..MaxNodes

NodeX(n) == (n - 1) + (n - 1) + (n - 1)
NodeY(n) == 0

LastX == NodeX(MaxNodes)

Forward  == {<<n, n + 1>> : n \in 1..(MaxNodes - 1)}
Backward == {<<n + 1, n>> : n \in 1..(MaxNodes - 1)}
Shortcut == <<1, MaxNodes>>

\* Graphs: any of the forward chain, the backward chain (each edge of length
\* 1) and a direct edge from the first to the last node, short or long.
Graphs ==
    {[edges |-> (IF f THEN Forward ELSE {}) \cup (IF b THEN Backward ELSE {})
                    \cup (IF s = 0 THEN {} ELSE {Shortcut}),
      shortcut |-> s] :
        f \in BOOLEAN, b \in BOOLEAN, s \in {0, 1, MaxNodes + MaxNodes}}

EdgeLength(graph, e) == IF e = Shortcut /\ graph.shortcut # 0 THEN graph.shortcut ELSE 1

\* Coordinate values: a number, NaN, or a value that is no number.
Num(n) == [kind |-> "number", num |-> n]
NaN    == [kind |-> "nan", num |-> 0]
Bad    == [kind |-> "str", num |-> 0]

IsNumber(v) == v.kind = "number"

Rows0 ==
    LET Here == {Num(0), Num(1), Num(LastX)}
        Row(sn, se, en, ee) ==
            [start_north |-> sn, start_east |-> se, end_north |-> en, end_east |-> ee]
    IN  {Row(Num(0), se, Num(0), ee) : se \in Here, ee \in {Num(0), Num(LastX)}}
        \cup {Row(NaN, Num(0), Num(0), Num(LastX)), Row(Num(0), NaN, Num(0), Num(LastX)),
              Row(Num(0), Num(0), NaN, Num(LastX)), Row(Num(0), Num(0), Num(0), NaN),
              Row(Num(0), Num(0), Num(0), Bad)}

\* A DataFrame of the rows rs with the default index.
DataFrame(rs) ==
    [k \in DOMAIN rs |->
        [name |-> k - 1, start_north |-> rs[k].start_north, start_east |-> rs[k].start_east,
         end_north |-> rs[k].end_north, end_east |-> rs[k].end_east]]

PyLine(points) == [type |-> "LineString", val |-> points]

Abs(n) == IF n < 0 THEN 0 - n ELSE n

SquareDist(x, y, n) == (x - NodeX(n)) * (x - NodeX(n)) + (y - NodeY(n)) * (y - NodeY(n))

\* ox.distance.nearest_nodes(g, X, Y): the node nearest to (X, Y); 0 stands for
\* the exception it raises when a coordinate is no number.
nearest_nodes(X, Y) ==
    IF ~IsNumber(X) \/ ~IsNumber(Y) THEN 0
    ELSE CHOOSE n \in Nodes :
            \A m \in Nodes : SquareDist(X.num, Y.num, n) <= SquareDist(X.num, Y.num, m)

\* geod.inv(lon1, lat1, lon2, lat2)[2]: the distance between two nodes, zero
\* exactly when they lie at the same place.
distance_m(a, b) == Abs(NodeX(a) - NodeX(b)) + Abs(NodeY(a) - NodeY(b))

\* The simple paths of the graph from a to b.
IsPath(graph, p, a, b) ==
    /\ Len(p) >= 1 /\ p[1] = a /\ p[Len(p)] = b
    /\ \A i \in DOMAIN p : \A j \in DOMAIN p : i # j => p[i] # p[j]
    /\ \A i \in 1..(Len(p) - 1) : <<p[i], p[i + 1]>> \in graph.edges

Paths(graph, a, b) ==
    {p \in UNION {[1..k -> Nodes] : k \in 1..MaxNodes} : IsPath(graph, p, a, b)}

RECURSIVE Cost(_, _)
Cost(graph, p) ==
    IF Len(p) < 2 THEN 0
    ELSE EdgeLength(graph, <<p[1], p[2]>>) + Cost(graph, Tail(p))

\* nx.shortest_path(g, orig_node, dest_node, weight="length"); <<>> stands for
\* NetworkXNoPath.
shortest_path(graph, a, b) ==
    LET found == Paths(graph, a, b)
    IN  IF found = {} THEN <<>>
        ELSE CHOOSE p \in found : \A q \in found : Cost(graph, p) <= Cost(graph, q)

\* The route's coordinates from its last node to its first.
line_coords_reversed(route) ==
    [i \in DOMAIN route |-> <<NodeX(route[Len(route) + 1 - i]), NodeY(route[Len(route) + 1 - i])>>]

\* [(g.nodes[n]['x'], g.nodes[n]['y']) for n in route]
line_coords(route) == [i \in DOMAIN route |-> <<NodeX(route[i]), NodeY(route[i])>>]

\* The check of line 128 looking at the start coordinates only.
isna_start_only(row) == row.start_north = NaN \/ row.start_east = NaN

\* pd.isna(...) or ... of line 128
isna_any(row) ==
    \/ row.start_north = NaN \/ row.start_east = NaN
    \/ row.end_north = NaN \/ row.end_east = NaN

Outcome(value, exit, raised, snaps, invs, searches) ==
    [value |-> value, exit |-> exit, raised |-> raised, logged |-> FALSE,
     nearest_nodes |-> snaps, inv |-> invs, shortest_path |-> searches]

(***************************************************************************)
(* The body of the try block of correct_erroneous_line, lines 122-153:     *)
(* the value returned or the exception raised, the return statement        *)
(* reached, and how often each library call was made.                      *)
(***************************************************************************)
try_block(row, graph) ==
    IF isna_any(row)
    THEN Outcome(PyNone, "missing-coordinate", "", 0, 0, 0)
    ELSE
    LET orig_node == nearest_nodes(row.start_east, row.start_north)
        dest_node == nearest_nodes(row.end_east, row.end_north)
    IN  IF orig_node = 0 THEN Outcome(PyRaise, "", "Exception", 1, 0, 0)
        ELSE IF dest_node = 0 THEN Outcome(PyRaise, "", "Exception", 2, 0, 0)
        ELSE IF distance_m(orig_node, dest_node) = 0
        THEN Outcome(PyNone, "degenerate", "", 2, 1, 0)
        ELSE LET route == shortest_path(graph, orig_node, dest_node)
             IN  IF route = <<>>
                 THEN Outcome(PyRaise, "", "NetworkXNoPath", 2, 1, 1)
                 ELSE IF Len(route) < 2
                 THEN Outcome(PyNone, "degenerate", "", 2, 1, 1)
                 ELSE Outcome(PyLine(line_coords(route)), "line", "", 2, 1, 1)

\* A handler for the networkx exceptions that is missing: they go on to the
\* next handler.
except_networkx_missing(o) == o

\* except (nx.NetworkXNoPath, nx.NodeNotFound): return None
except_networkx(o) ==
    IF o.raised = "NetworkXNoPath" THEN [o EXCEPT !.value = PyNone, !.exit = "no-path", !.raised = ""]
    ELSE IF o.raised = "NodeNotFound"
         THEN [o EXCEPT !.value = PyNone, !.exit = "node-not-found", !.raised = ""]
         ELSE o

\* A handler for the other exceptions that is missing: they leave the function.
except_exception_missing(o) == o

\* except Exception as e: print(...row.name...); return None
except_exception(o) ==
    IF o.raised # ""
    THEN [o EXCEPT !.value = PyNone, !.exit = "internal-error", !.raised = "", !.logged = TRUE]
    ELSE o

correct_erroneous_line(row, graph) ==
    except_exception(except_networkx(try_block(row, graph)))

(***************************************************************************)
(* correct_lines_in_dataframe(data, g): data.apply(..., axis=1) row by     *)
(* row, then the count of the routed rows.                                 *)
(***************************************************************************)
ApplyRow ==
    /\ pc = "apply"
    /\ Len(geometry) < Len(data)
    /\ LET row == data[Len(geometry) + 1]
           o   == correct_erroneous_line(row, g)
       IN  /\ calls' = Append(calls, [row |-> row.name, exit |-> o.exit, logged |-> o.logged,
                                      nearest_nodes |-> o.nearest_nodes, inv |-> o.inv,
                                      shortest_path |-> o.shortest_path])
           /\ IF o.raised # ""
              THEN pc' = "raised" /\ UNCHANGED geometry
              ELSE pc' = pc /\ geometry' = Append(geometry, o.value)
    /\ UNCHANGED <<g, data, successful_routes>>
    /\ UNCHANGED <<diffVars, nameVars>>

\* data["geometry"].notna().sum()
notna_sum(values) == Cardinality({k \in DOMAIN values : ~isna(values[k])})

ApplyReturn ==
    /\ pc = "apply"
    /\ Len(geometry) = Len(data)
    /\ successful_routes' = notna_sum(geometry)
    /\ pc' = "routed"
    /\ UNCHANGED <<g, data, geometry, calls>>
    /\ UNCHANGED <<diffVars, nameVars>>

InitMatch ==
    /\ g \in Graphs
    /\ data \in {DataFrame(rs) : rs \in SeqsUpTo(Rows0, MaxData)}
    /\ geometry = <<>> /\ calls = <<>> /\ successful_routes = 0
    /\ pc = "apply"
    /\ IdleDiff /\ IdleName

NextMatch == ApplyRow \/ ApplyReturn

SpecMatch == InitMatch /\ [][NextMatch]_vars

(***************************************************************************)
(* Properties of the map matching.                                         *)
(***************************************************************************)
IsLine(v) == v.type = "LineString"

isna_any_of(row) == \E f \in {"start_north", "start_east", "end_north", "end_east"} : row[f] = NaN

Numeric(row) ==
    /\ IsNumber(row.start_north) /\ IsNumber(row.start_east)
    /\ IsNumber(row.end_north) /\ IsNumber(row.end_east)

\* The node whose place is nearest to the place (east, north).
Snapped(east, north) ==
    CHOOSE n \in Nodes :
        \A m \in Nodes :
            Abs(east.num - NodeX(n)) + Abs(north.num - NodeY(n))
                <= Abs(east.num - NodeX(m)) + Abs(north.num - NodeY(m))

Connected(a, b) == Paths(g, a, b) # {}

\* What a row deserves: a line when all its coordinates are numbers that snap
\* to two different nodes joined by a path.
Correctable(row) ==
    /\ Numeric(row)
    /\ Snapped(row.start_east, row.start_north) # Snapped(row.end_east, row.end_north)
    /\ Connected(Snapped(row.start_east, row.start_north),
                 Snapped(row.end_east, row.end_north))

\* C3: no row aborts the batch; the k-th result is the one of the k-th row (a
\* line exactly when that row is correctable), so N rows give N results in
\* row order; the reported count is the number of lines.
C3_OneResultPerRow ==
    /\ pc # "raised"
    /\ pc \in {"apply", "routed"} =>
         /\ Len(geometry) <= Len(data)
         /\ Len(calls) = Len(geometry)
         /\ \A k \in DOMAIN geometry :
              /\ calls[k].row = data[k].name
              /\ IsLine(geometry[k]) <=> Correctable(data[k])
              /\ ~IsLine(geometry[k]) => geometry[k] = PyNone
    /\ pc = "routed" =>
         /\ Len(geometry) = Len(data)
         /\ successful_routes = Cardinality({k \in DOMAIN geometry : IsLine(geometry[k])})

\* A batch of two rows is done: the first failed unexpectedly, the second was
\* routed.
C3_Witness ==
    /\ pc = "routed"
    /\ Len(data) = 2
    /\ calls[1].exit = "internal-error"
    /\ IsLine(geometry[2])
    /\ successful_routes = 1

Tagged(v, reason) == v.type = "uncorrectable" /\ v.val = <<reason>>

InitStreet ==
    /\ address \in Labels
    /\ street = PyNone
    /\ pc = "extract"
    /\ IdleDiff /\ IdleMatch

ExtractStreetName ==
    /\ pc = "extract"
    /\ street' = extract_street_name(address)
    /\ pc' = "extracted"
    /\ UNCHANGED address
    /\ UNCHANGED <<diffVars, matchVars>>

NextStreet == ExtractStreetName

SpecStreet == InitStreet /\ [][NextStreet]_vars

\* The label is absent, no string, or holds nothing but whitespace.
Blank(a) == a.type # "str" \/ \A i \in DOMAIN a.val : a.val[i] = " "

\* The first comma-separated segment of s.
IsFirstSegment(seg, s) ==
    /\ Len(seg) <= Len(s)
    /\ seg = SubSeq(s, 1, Len(seg))
    /\ \A i \in DOMAIN seg : seg[i] # ","
    /\ Len(seg) < Len(s) => s[Len(seg) + 1] = ","

FirstSegment(s) == CHOOSE seg \in {SubSeq(s, 1, n) : n \in 0..Len(s)} : IsFirstSegment(seg, s)

\* s without the whitespace around it.
Trimmed(s) ==
    LET inked == {i \in DOMAIN s : s[i] # " "}
    IN  IF inked = {} THEN <<>>
        ELSE SubSeq(s, CHOOSE i \in inked : \A j \in inked : i <= j,
                       CHOOSE i \in inked : \A j \in inked : j <= i)

\* s begins with a house number that ends after position n: one or more
\* digits, then letters or hyphens, then one or more whitespace, all of it.
HouseNumberEnds(s, n) ==
    \E d \in 1..Len(s) : \E u \in d..Len(s) :
        /\ u < n /\ n <= Len(s)
        /\ \A i \in 1..d : s[i] \in Digits
        /\ \A i \in (d + 1)..u : s[i] \in Letters \cup {"-"}
        /\ \A i \in (u + 1)..n : s[i] = " "
        /\ n < Len(s) => s[n + 1] # " "

\* The segment without its leading house number, or the segment itself when
\* it has none or nothing would be left.
WithoutHouseNumber(seg) ==
    IF \E n \in 1..(Len(seg) - 1) : HouseNumberEnds(seg, n)
    THEN SubSeq(seg, (CHOOSE n \in 1..(Len(seg) - 1) : HouseNumberEnds(seg, n)) + 1, Len(seg))
    ELSE seg

====
